---- MODULE Spec2Model ----
(***************************************************************************)
(* Model of the AnimeUnityDownloader crawler: Crawler (crawler.py) and     *)
(* validate_episode_range / fetch_with_cloudscraper / fetch_with_retries   *)
(* (crawler_utils.py).                                                     *)
(*                                                                         *)
(* One asyncio event loop runs the coroutines.  A task is a call of        *)
(* fetch_with_retries made by _get_episode_id (phase "ids") or by          *)
(* _get_video_url (phase "videos"); its pc is the await it is suspended at.*)
(* Optional values (int | None, response | None) are sequences of length   *)
(* at most one: None is <<>> and a present value x is <<x>>.               *)
(* Delays are in half seconds, so that 0.5 + uniform(0, 1.5) is integral.  *)
(*                                                                         *)
(* The threaded script anime_downloader.py is the second entry point: its  *)
(* get_embed_urls (a ThreadPoolExecutor drained with as_completed) and the *)
(* download of each embed URL (process_embed_url, download_episode).  A    *)
(* run is either a Crawler run or a run of that script; the variables of   *)
(* the other part stay at their "off" values.                              *)
(*                                                                         *)
(* main.py in CLI mode (--nogui) is the third part: the loop of            *)
(* process_urls over the lines of the URLs file and the clearing of that   *)
(* file; what process_anime_download does for one URL is its outcome.      *)
(***************************************************************************)
EXTENDS Integers, Sequences, FiniteSets

\* ---------------------------------------------------------------- bounds
MaxEpisodes == 2
MaxWorkers == 2
MaxItems == 2
MaxLines == 2

\* ------------------------------------------------------ program constants
\* default of the `retries` parameter of fetch_with_retries; no caller
\* passes another value
retries == 4

\* default of the `retries` parameter of download_episode; process_embed_url
\* passes no other value
download_retries == 3

\* max_workers of the ThreadPoolExecutor of get_embed_urls
embed_max_workers == 4

\* time.sleep(30) of download_episode, in seconds
retry_sleep == 30

VARIABLES
    api_url,         \* self.api_url (optional), from _generate_api_url
    num_episodes,    \* self.num_episodes, from the metadata call of __init__
    start_episode,   \* self.start_episode (optional int)
    end_episode,     \* self.end_episode (optional int)
    max_workers,     \* capacity given to asyncio.Semaphore in __init__
    sem,             \* the semaphore's free slots (_value)
    waiters,         \* the semaphore's FIFO queue of suspended acquirers
    phase,           \* position of collect_video_urls
    tasks,           \* the fetch_with_retries calls of the running gather
    episode_ids,     \* value returned by _collect_episode_ids (optional)
    video_urls,      \* value returned by collect_video_urls (optional)
    fetch_issued,    \* some fetch_with_retries GET has been sent
    HEADERS,         \* keys of the module-level HEADERS mapping of crawler.py
    dl_phase,        \* position of process_anime_download (anime_downloader)
    items,           \* per episode: its future, then its download
    embed_urls,      \* the list get_embed_urls appends to (item numbers)
    dl_exc,          \* exception propagating out of get_embed_urls
    cli_pc,          \* position of main (main.py, CLI mode)
    urls_file,       \* the lines of URLS_FILE
    urls,            \* the list main read and hands to process_urls
    processed        \* the URLs whose process_anime_download has returned

vars == <<api_url, num_episodes, start_episode, end_episode, max_workers, sem, waiters,
          phase, tasks, episode_ids, video_urls, fetch_issued, HEADERS,
          dl_phase, items, embed_urls, dl_exc,
          cli_pc, urls_file, urls, processed>>

cli_vars == <<cli_pc, urls_file, urls, processed>>

crawler_vars == <<api_url, num_episodes, start_episode, end_episode,
                  max_workers, sem, waiters, phase, tasks, episode_ids,
                  video_urls, fetch_issued, HEADERS>>

dl_vars == <<dl_phase, items, embed_urls, dl_exc>>

\* ------------------------------------------------------- optional values
None == <<>>

Some(x) == <<x>>

\* Python truthiness of an int | None: None and 0 are falsy.
Truthy(o) == o # None /\ o[1] # 0

RECURSIVE Pow2(_)
Pow2(k) == IF k = 0 THEN 1 ELSE 2 * Pow2(k - 1)

\* ------------------------------------------------ validate_episode_range
\* TRUE when validate_episode_range calls log_and_exit (sys.exit(1)).
ValidateExits(s, e, n) ==
    \/ Truthy(s) /\ (s[1] < 1 \/ s[1] > n)
    \/ Truthy(s) /\ Truthy(e) /\ (s[1] > e[1] \/ e[1] > n)

StartIndex_OffByOne(s) == IF Truthy(s) THEN s[1] ELSE 0

StartIndex(s) == IF Truthy(s) THEN s[1] - 1 ELSE 0

EndIndex(e, n) == IF Truthy(e) THEN e[1] ELSE n

\* list(range(lo, hi))
Range(lo, hi) == [k \in 1..(IF hi > lo THEN hi - lo ELSE 0) |-> lo + k - 1]

\* ----------------------------------------------------- _get_episode_id
Params(episode_indx) ==
    [start_range |-> episode_indx, end_range |-> episode_indx + 1]

\* The index API: the episodes of 1..n whose number lies in the window,
\* in ascending order.
IndexApi(params, n) ==
    LET lo == IF params.start_range < 1 THEN 1 ELSE params.start_range
        hi == IF params.end_range > n THEN n ELSE params.end_range
    IN  Range(lo, hi + 1)

EpisodeId(number) == Some(number)

\* The "number" field of the episode at a position of the catalogue, as the
\* API serves it: a string, here non-numeric ("SP") for the first episode
\* and the position in digits for the others.  _get_episode_id reads only
\* the "id" field of an entry, never "number".
NumberField(position) ==
    IF position = 1 THEN "SP" ELSE <<"1", "2", "3", "4", "5">>[position]

\* does int(number) fail
NonNumeric(number) == number \notin {"1", "2", "3", "4", "5"}

\* What _get_episode_id returns for the result of fetch_with_retries.
EpisodeIdFrom(result) ==
    IF result = None THEN None
    ELSE LET episode_info == result[1].episodes
         IN  IF episode_info = <<>> THEN None
             ELSE EpisodeId(episode_info[Len(episode_info)])

\* What _get_video_url returns for the result of fetch_with_retries.
VideoUrlFrom(result) ==
    IF result = None THEN None ELSE Some(result[1].text)

\* ----------------------------------------------------- fetch_with_retries
NoWait == [base |-> 0, jlo |-> 0, jhi |-> 0]

\* delay = 0.5 + random.uniform(0, 1.5), before every attempt but the first
BotDelay == [base |-> 1, jlo |-> 0, jhi |-> 3]

\* the same wait after every attempt
Backoff_Constant(attempt, lo, hi) == [base |-> 2, jlo |-> 2 * lo, jhi |-> 2 * hi]

\* delay = 2 ** attempt + random.uniform(lo, hi)
Backoff(attempt, lo, hi) ==
    [base |-> 2 * Pow2(attempt), jlo |-> 2 * lo, jhi |-> 2 * hi]

\* no attempt is followed by a backoff
HasBudget_Never(attempt) == FALSE

\* `attempt < retries - 1` of the three except branches
HasBudget(attempt) == attempt < retries - 1

LoopContinues_OneMore(attempt) == attempt + 1 <= retries

\* `for attempt in range(retries)`: is there an iteration after this one
LoopContinues(attempt) == attempt + 1 < retries

\* 403 handled by an immediate fallback instead of a backoff
OnFailure_EagerFallback(kind, attempt) ==
    IF kind = "403"
    THEN [pc |-> "fallback", wait |-> NoWait]
    ELSE IF attempt < retries - 1
    THEN [pc |-> "backoff", wait |-> Backoff(attempt, 0, 2)]
    ELSE IF kind = "status"
    THEN [pc |-> "loop", wait |-> NoWait]
    ELSE [pc |-> "fallback", wait |-> NoWait]

\* every kind of failure of the last attempt handled by the fallback
OnFailure_FallbackOnStatus(kind, attempt) ==
    IF attempt < retries - 1
    THEN [pc |-> "backoff",
          wait |-> IF kind = "403" THEN Backoff(attempt, 1, 3)
                   ELSE Backoff(attempt, 0, 2)]
    ELSE [pc |-> "fallback", wait |-> NoWait]

\* The except branches: what the call does after a failed primary attempt.
\* kind is "403" (HTTPStatusError with status 403), "status" (any other
\* HTTPStatusError) or "request" (httpx.RequestError).
OnFailure(kind, attempt) ==
    IF kind = "403"
    THEN IF HasBudget(attempt)
         THEN [pc |-> "backoff", wait |-> Backoff(attempt, 1, 3)]
         ELSE [pc |-> "fallback", wait |-> NoWait]
    ELSE IF kind = "status"
    THEN IF HasBudget(attempt)
         THEN [pc |-> "backoff", wait |-> Backoff(attempt, 0, 2)]
         ELSE [pc |-> "loop", wait |-> NoWait]
    ELSE IF HasBudget(attempt)
         THEN [pc |-> "backoff", wait |-> Backoff(attempt, 0, 2)]
         ELSE [pc |-> "fallback", wait |-> NoWait]

\* no `except Exception`: the failure of the scraper leaves the call
CloudscraperOutcome_Reraises(ok, response) ==
    IF ok THEN [pc |-> "done", result |-> Some(response)]
    ELSE [pc |-> "raised", result |-> None]

\* fetch_with_cloudscraper: a MockResponse on success; every Exception is
\* caught and None is returned.
CloudscraperOutcome(ok, response) ==
    IF ok THEN [pc |-> "done", result |-> Some(response)]
    ELSE [pc |-> "done", result |-> None]

\* the slot is never given back
ReleasedOn_Never(pc) == FALSE

\* acquire and release without try/finally
ReleasedOn_ReturnOnly(pc) == pc = "done"

\* `async with semaphore`: the slot is released however the block is left,
\* by a return (pc "done") or by an exception (pc "raised").
ReleasedOn(pc) == pc \in {"done", "raised"}

CanAcquire_Always(value, queued) == TRUE

\* Semaphore.acquire does not suspend when a slot is free and nobody queues.
CanAcquire(value, queued) == value > 0 /\ queued = 0

\* ---------------------------------------------------------------- headers
\* prepare_headers(): a new dict with a User-Agent
PrepareHeaders == {"User-Agent"}

\* the keys of the headers.update({...}) of both fetch functions
DefaultHeaders ==
    {"Accept", "Accept-Language", "Accept-Encoding", "DNT", "Connection",
     "Sec-Fetch-Dest", "Sec-Fetch-Mode", "Sec-Fetch-Site", "Cache-Control"}

\* _get_episode_id and _get_video_url pass headers=HEADERS, and
\* fetch_with_retries hands its headers on to fetch_with_cloudscraper.
HeadersArg == Some("HEADERS")

\* the defaults are written into whatever mapping the call works with
ApplyDefaults_InPlace(passed, shared) ==
    [used |-> (IF passed = None THEN PrepareHeaders ELSE shared)
                 \cup DefaultHeaders,
     shared |-> IF passed = None THEN shared
                ELSE shared \cup DefaultHeaders]

\* `if headers is None: headers = prepare_headers(); headers.update({...})`
\* of fetch_with_retries and of fetch_with_cloudscraper: the mapping used for
\* the request, and the shared mapping afterwards.
ApplyDefaults(passed, shared) ==
    IF passed = None
    THEN [used |-> PrepareHeaders \cup DefaultHeaders, shared |-> shared]
    ELSE [used |-> shared, shared |-> shared]

\* ---------------------------------------------------------------- tasks
NewTask(arg) ==
    [pc |-> "created", arg |-> arg, attempt |-> 0, gets |-> 0,
     exc |-> "none", wait |-> NoWait, result |-> None]

Active == {"get", "delay", "backoff", "fallback"}

Ended == {"done", "raised"}

Idx == DOMAIN tasks

Holders == Cardinality({i \in Idx : tasks[i].pc \in Active})

AllEnded == \A i \in Idx : tasks[i].pc \in Ended

\* the gather resumes as soon as every task has been started
AllDone_Started == \A i \in Idx : tasks[i].pc \notin {"created", "waiting"}

\* only the first finished task is awaited (FIRST_COMPLETED)
AllDone_First == \E i \in Idx : tasks[i].pc = "done"

\* `await asyncio.gather(*tasks)` resumes with a value only when every task
\* has returned.
AllDone == \A i \in Idx : tasks[i].pc = "done"

\* results collected last-first
GatherOrder_Reversed(i, n) == n + 1 - i

\* asyncio.gather returns the results in the order of its awaitables:
\* position i of the list of n results holds the result of task i.
GatherOrder(i, n) == i

\* fetch_with_cloudscraper never awaits: while it runs, the loop runs nothing
\* else.
LoopFreeFor(i) == \A j \in Idx : j # i => tasks[j].pc # "fallback"

\* The response a successful GET of task i carries.
ResponseOf(i) ==
    IF phase = "ids"
    THEN [episodes |-> IndexApi(Params(tasks[i].arg), num_episodes),
          text |-> None]
    ELSE [episodes |-> <<>>, text |-> tasks[i].arg]

\* ----------------------------------------------------------------- Init
\* --start / --end: absent, or an int. The ints tried are one of each kind
\* the code tells apart: a negative one, 0 (falsy), the first episode and a
\* later one, which lies above the total when the anime has one episode.
OptInputs == {None} \cup {Some(k) : k \in {0 - 1, 0, 1, 2}}

\* positions of Crawler.__init__ before it has returned, or after it raised
\* ("off": the run constructs no Crawler)
Unbuilt == {"off", "new", "derived", "crashed"}

\* the run is not a run of main.py
CliOff ==
    /\ cli_pc = "off"
    /\ urls_file = <<>>
    /\ urls = <<>>
    /\ processed = <<>>

\* A future of get_embed_urls, later the download of the same episode.
NewItem(pc) ==
    [pc |-> pc, attempt |-> 0, saved |-> FALSE, link |-> None,
     wait |-> NoWait, received |-> 0, offset |-> 0]

\* Crawler(url, start_episode, end_episode, max_workers) is being called;
\* no attribute is set yet.
InitCrawler ==
    /\ api_url = None
    /\ num_episodes = 0
    /\ start_episode \in OptInputs
    /\ end_episode \in OptInputs
    /\ max_workers \in 1..MaxWorkers
    /\ sem = 0
    /\ waiters = <<>>
    /\ phase = "new"
    /\ tasks = <<>>
    /\ episode_ids = None
    /\ video_urls = None
    /\ fetch_issued = FALSE
    /\ HEADERS = PrepareHeaders
    /\ dl_phase = "off"
    /\ items = <<>>
    /\ embed_urls = <<>>
    /\ dl_exc = "none"
    /\ CliOff

\* get_embed_urls(episode_urls) has submitted get_embed_url for every
\* episode URL and enters its as_completed loop.
InitDownloader ==
    /\ api_url = None
    /\ num_episodes = 0
    /\ start_episode = None
    /\ end_episode = None
    /\ max_workers = 1
    /\ sem = 0
    /\ waiters = <<>>
    /\ phase = "off"
    /\ tasks = <<>>
    /\ episode_ids = None
    /\ video_urls = None
    /\ fetch_issued = FALSE
    /\ HEADERS = PrepareHeaders
    /\ dl_phase = "embed"
    /\ \E n \in 1..MaxItems : items = [k \in 1..n |-> NewItem("submitted")]
    /\ embed_urls = <<>>
    /\ dl_exc = "none"
    /\ CliOff

\* the lines a URLs file may hold: blank ones, and URLs with or without
\* surrounding blanks
Lines == {"", " ", "a", " b "}

\* str.strip()
Strip(line) ==
    CASE line = " " -> ""
      [] line = " b " -> "b"
      [] OTHER -> line

\* [url.strip() for url in lines if url.strip()]
RECURSIVE StrippedNonEmpty(_)
StrippedNonEmpty(lines) ==
    IF lines = <<>> THEN <<>>
    ELSE IF Strip(Head(lines)) = "" THEN StrippedNonEmpty(Tail(lines))
    ELSE <<Strip(Head(lines))>> \o StrippedNonEmpty(Tail(lines))

\* main(custom_path) of main.py is called; nothing is read yet.
InitCli ==
    /\ api_url = None
    /\ num_episodes = 0
    /\ start_episode = None
    /\ end_episode = None
    /\ max_workers = 1
    /\ sem = 0
    /\ waiters = <<>>
    /\ phase = "off"
    /\ tasks = <<>>
    /\ episode_ids = None
    /\ video_urls = None
    /\ fetch_issued = FALSE
    /\ HEADERS = PrepareHeaders
    /\ dl_phase = "off"
    /\ items = <<>>
    /\ embed_urls = <<>>
    /\ dl_exc = "none"
    /\ cli_pc = "start"
    /\ \E n \in 0..MaxLines : urls_file \in [1..n -> Lines]
    /\ urls = <<>>
    /\ processed = <<>>

Init == InitCrawler \/ InitDownloader \/ InitCli

\* A crawler whose range is left open, or whose start is rejected by
\* validate_episode_range: the number of tasks is then num_episodes or
\* none, for every capacity of the semaphore.
InitFair ==
    /\ InitCrawler
    /\ start_episode \in {None, Some(0 - 1)}
    /\ end_episode = None

\* -------------------------------------------------------------- actions
\* self.api_url = self._generate_api_url(url): the info_api URL when the URL
\* has the shape https://{host}/anime/{digits}-{slug}; otherwise the error
\* is logged and None is returned to __init__, which goes on.
GenerateApiUrl(matches) ==
    /\ phase = "new"
    /\ api_url' = IF matches THEN Some("info_api") ELSE None
    /\ phase' = "derived"
    /\ UNCHANGED <<num_episodes, start_episode, end_episode, max_workers, sem,
                   waiters, tasks, episode_ids, video_urls, fetch_issued, HEADERS>>
    /\ UNCHANGED <<dl_vars, cli_vars>>

\* self.num_episodes = self._get_num_episodes() and the rest of __init__:
\* httpx.get(url=self.api_url, ...) raises for a None url, the request or
\* raise_for_status may fail (ok = FALSE), and nothing catches either;
\* otherwise episodes_count is stored and the semaphore is created.
GetNumEpisodes(ok, count) ==
    /\ phase = "derived"
    /\ IF api_url # None /\ ok
       THEN /\ num_episodes' = count
            /\ sem' = max_workers
            /\ phase' = "constructed"
       ELSE /\ phase' = "crashed"
            /\ UNCHANGED <<num_episodes, sem>>
    /\ UNCHANGED <<api_url, start_episode, end_episode, max_workers, waiters,
                   tasks, episode_ids, video_urls, fetch_issued, HEADERS>>
    /\ UNCHANGED <<dl_vars, cli_vars>>

\* _collect_episode_ids, when validate_episode_range exits the process.
ValidationExit ==
    /\ phase = "constructed"
    /\ ValidateExits(start_episode, end_episode, num_episodes)
    /\ phase' = "exited"
    /\ UNCHANGED <<api_url, num_episodes, start_episode, end_episode, max_workers, sem,
                   waiters, tasks, episode_ids, video_urls, fetch_issued, HEADERS>>
    /\ UNCHANGED <<dl_vars, cli_vars>>

\* _collect_episode_ids, up to its `await asyncio.gather(*tasks)`.
CollectEpisodeIds ==
    /\ phase = "constructed"
    /\ ~ValidateExits(start_episode, end_episode, num_episodes)
    /\ LET indexes == Range(StartIndex(start_episode),
                            EndIndex(end_episode, num_episodes))
       IN  tasks' = [k \in DOMAIN indexes |-> NewTask(indexes[k])]
    /\ phase' = "ids"
    /\ UNCHANGED <<api_url, num_episodes, start_episode, end_episode, max_workers, sem,
                   waiters, episode_ids, video_urls, fetch_issued, HEADERS>>
    /\ UNCHANGED <<dl_vars, cli_vars>>

\* A task's first step, `async with semaphore`; the loop starts the tasks of
\* a gather in list order.
Acquire(i) ==
    /\ phase \in {"ids", "videos", "raised"}
    /\ tasks[i].pc = "created"
    /\ \A j \in Idx : j < i => tasks[j].pc # "created"
    /\ LoopFreeFor(i)
    /\ IF CanAcquire(sem, Len(waiters))
       THEN /\ sem' = sem - 1
            /\ tasks' = [tasks EXCEPT ![i].pc = "get", ![i].gets = 1]
            /\ fetch_issued' = TRUE
            /\ HEADERS' = ApplyDefaults(HeadersArg, HEADERS).shared
            /\ UNCHANGED waiters
       ELSE /\ waiters' = Append(waiters, i)
            /\ tasks' = [tasks EXCEPT ![i].pc = "waiting"]
            /\ UNCHANGED <<sem, fetch_issued, HEADERS>>
    /\ UNCHANGED <<api_url, num_episodes, start_episode, end_episode, max_workers,
                   phase, episode_ids, video_urls>>
    /\ UNCHANGED <<dl_vars, cli_vars>>

\* The call of task i ends, returning result (pc "done") or raising exc (pc
\* "raised"): its frame is dropped and the slot is released; a released slot
\* goes to the first waiter, which sends its first GET.
Finish(i, pc, result, exc) ==
    LET ended == [tasks EXCEPT ![i] =
                    [pc |-> pc, arg |-> @.arg, attempt |-> 0, gets |-> 0,
                     exc |-> IF pc = "raised" THEN exc ELSE "none",
                     wait |-> NoWait, result |-> result]]
    IN  IF ~ReleasedOn(pc)
        THEN /\ tasks' = ended
             /\ UNCHANGED <<sem, waiters, fetch_issued, HEADERS>>
        ELSE IF waiters # <<>>
        THEN /\ tasks' = [ended EXCEPT ![Head(waiters)].pc = "get",
                                       ![Head(waiters)].gets = 1]
             /\ waiters' = Tail(waiters)
             /\ fetch_issued' = TRUE
             /\ HEADERS' = ApplyDefaults(HeadersArg, HEADERS).shared
             /\ UNCHANGED sem
        ELSE /\ tasks' = ended
             /\ sem' = sem + 1
             /\ UNCHANGED <<waiters, fetch_issued, HEADERS>>

\* The except block is left without returning: next iteration of the loop,
\* or `return None` when the range is exhausted.
Continue(i) ==
    IF LoopContinues(tasks[i].attempt)
    THEN /\ tasks' = [tasks EXCEPT ![i].pc = "delay",
                                   ![i].attempt = @ + 1,
                                   ![i].exc = "none",
                                   ![i].wait = BotDelay]
         /\ UNCHANGED <<sem, waiters, fetch_issued, HEADERS>>
    ELSE Finish(i, "done", None, "none")

\* `await client.get(...)` and `raise_for_status()` of task i complete.
GetResponds(i, outcome) ==
    /\ tasks[i].pc = "get"
    /\ LoopFreeFor(i)
    /\ CASE outcome = "ok" ->
              Finish(i, "done", Some(ResponseOf(i)), "none")
         [] outcome = "error" ->
              Finish(i, "raised", None, "error")
         [] OTHER ->
              LET next == OnFailure(outcome, tasks[i].attempt)
              IN  IF next.pc = "loop"
                  THEN Continue(i)
                  ELSE /\ tasks' = [tasks EXCEPT ![i].pc = next.pc,
                                                 ![i].exc = outcome,
                                                 ![i].wait = next.wait]
                       /\ HEADERS' =
                            IF next.pc = "fallback"
                            THEN ApplyDefaults(HeadersArg, HEADERS).shared
                            ELSE HEADERS
                       /\ UNCHANGED <<sem, waiters, fetch_issued>>
    /\ UNCHANGED <<api_url, num_episodes, start_episode, end_episode, max_workers,
                   phase, episode_ids, video_urls>>
    /\ UNCHANGED <<dl_vars, cli_vars>>

\* The `await asyncio.sleep(delay)` before attempts 1.. ends: the GET is sent.
DelayEnds(i) ==
    /\ tasks[i].pc = "delay"
    /\ LoopFreeFor(i)
    /\ tasks' = [tasks EXCEPT ![i].pc = "get", ![i].gets = @ + 1,
                              ![i].wait = NoWait]
    /\ UNCHANGED <<api_url, num_episodes, start_episode, end_episode, max_workers, sem,
                   waiters, phase, episode_ids, video_urls, fetch_issued, HEADERS>>
    /\ UNCHANGED <<dl_vars, cli_vars>>

\* The `await asyncio.sleep(delay)` of an except branch ends.
BackoffEnds(i) ==
    /\ tasks[i].pc = "backoff"
    /\ LoopFreeFor(i)
    /\ Continue(i)
    /\ UNCHANGED <<api_url, num_episodes, start_episode, end_episode, max_workers,
                   phase, episode_ids, video_urls>>
    /\ UNCHANGED <<dl_vars, cli_vars>>

\* `return await fetch_with_cloudscraper(url, headers, params)`
FallbackReturns(i, ok) ==
    /\ tasks[i].pc = "fallback"
    /\ LET out == CloudscraperOutcome(ok, ResponseOf(i))
       IN  Finish(i, out.pc, out.result, "cloudscraper")
    /\ UNCHANGED <<api_url, num_episodes, start_episode, end_episode, max_workers,
                   phase, episode_ids, video_urls>>
    /\ UNCHANGED <<dl_vars, cli_vars>>

\* gather of _collect_episode_ids returns; collect_video_urls builds the
\* embed URLs and the _get_video_url tasks, up to its own gather.
GatherIds ==
    /\ phase = "ids"
    /\ AllDone
    /\ LET ids == [i \in Idx |->
                    EpisodeIdFrom(tasks[GatherOrder(i, Len(tasks))].result)]
       IN  /\ episode_ids' = Some(ids)
           /\ tasks' = [i \in Idx |-> NewTask(ids[i])]
    /\ phase' = "videos"
    /\ UNCHANGED <<api_url, num_episodes, start_episode, end_episode, max_workers, sem,
                   waiters, video_urls, fetch_issued, HEADERS>>
    /\ UNCHANGED <<dl_vars, cli_vars>>

\* gather of collect_video_urls returns.
GatherVideos ==
    /\ phase = "videos"
    /\ AllDone
    /\ video_urls' =
          Some([i \in Idx |->
                   VideoUrlFrom(tasks[GatherOrder(i, Len(tasks))].result)])
    /\ phase' = "returned"
    /\ UNCHANGED <<api_url, num_episodes, start_episode, end_episode, max_workers, sem,
                   waiters, tasks, episode_ids, fetch_issued, HEADERS>>
    /\ UNCHANGED <<dl_vars, cli_vars>>

\* gather propagates the first exception of a task to its awaiter; the other
\* tasks are not cancelled and keep running.
GatherRaises ==
    /\ phase \in {"ids", "videos"}
    /\ \E i \in Idx : tasks[i].pc = "raised"
    /\ phase' = "raised"
    /\ UNCHANGED <<api_url, num_episodes, start_episode, end_episode, max_workers, sem,
                   waiters, tasks, episode_ids, video_urls, fetch_issued, HEADERS>>
    /\ UNCHANGED <<dl_vars, cli_vars>>

\* ------------------------------------------------------ anime_downloader
Items == DOMAIN items

\* a finished future: it holds a result or an exception
Settled == {"found", "raised", "exit", "collected"}

\* a finished process_embed_url call
Over == {"done", "nolink", "raised", "exit"}

\* ThreadPoolExecutor.__exit__ is shutdown(wait=True): it returns when every
\* submitted call has finished, after a normal exit and after an exception.
ExecutorDrained == \A i \in Items : items[i].pc \in Settled

\* the outcome of fetch_page as get_embed_url / process_embed_url see it: the
\* parsed page, or sys.exit(1) for any requests.RequestException (after the
\* cloudscraper retry of a 403 has failed too); it never raises
\* RequestException to its caller.
FetchPage(ok) == IF ok THEN "page" ELSE "exit"

\* the loop gives up by raising to the caller
Exhausted_Raises == "raised"

\* download_episode when range(retries) is exhausted: the for loop ends and
\* the function returns None; nothing is raised.
Exhausted == "done"

DownloadLoopContinues_OneMore(attempt) == attempt + 1 <= download_retries

\* `for attempt in range(retries)` of download_episode
DownloadLoopContinues(attempt) == attempt + 1 < download_retries

\* `except requests.RequestException`: the only handler of the try block;
\* any other exception (OSError of a write, ...) leaves download_episode.
OnAttemptError(kind) == IF kind = "request" THEN "sleep" ELSE "raised"

\* the download links the embed pages may carry
Links ==
    {[token |-> 1, filename |-> "ep1.mp4"],
     [token |-> 2, filename |-> "ep2.mp4"]}

\* what extract_download_link finds in the scripts of an embed page
OptLinks == {None} \cup {Some(l) : l \in Links}

\* get_episode_filename(download_link): the file name the link carries
EpisodeFilename(link) == link.filename

\* final_path = os.path.join(download_path, filename); every transfer of a
\* run gets the same download_path
FinalPath(link) == <<"download_path", EpisodeFilename(link)>>

\* the wait of the except block, in half seconds like the other waits
DownloadWait(attempt) == [base |-> 2 * retry_sleep, jlo |-> 0, jhi |-> 0]

\* the next attempt asks for the bytes after those already received
ResumeFrom_Partial(received) == received

\* first byte of the body an attempt asks for: requests.get is called with
\* HEADERS only (User-Agent, Connection), without a Range header, whatever
\* the earlier attempt received.
ResumeFrom(received) == 0

\* A pool thread takes the submitted call of item i and calls fetch_page.
StartEmbed(i) ==
    /\ dl_phase \in {"embed", "embed_abort"}
    /\ items[i].pc = "submitted"
    /\ Cardinality({j \in Items : items[j].pc = "fetching"})
          < embed_max_workers
    /\ items' = [items EXCEPT ![i].pc = "fetching"]
    /\ UNCHANGED <<dl_phase, embed_urls, dl_exc>>
    /\ UNCHANGED <<crawler_vars, cli_vars>>

\* get_embed_url of item i ends: the embed URL, AttributeError / KeyError
\* when the tag or attribute is missing (found = FALSE), or the SystemExit
\* of fetch_page; the executor stores either exception in the future.
EmbedEnds(i, ok, found) ==
    /\ dl_phase \in {"embed", "embed_abort"}
    /\ items[i].pc = "fetching"
    /\ items' = [items EXCEPT ![i].pc =
                    IF FetchPage(ok) = "exit" THEN "exit"
                    ELSE IF found THEN "found" ELSE "raised"]
    /\ UNCHANGED <<dl_phase, embed_urls, dl_exc>>
    /\ UNCHANGED <<crawler_vars, cli_vars>>

\* One iteration of `for future in as_completed(futures)`: future.result()
\* returns the embed URL, which is appended, or re-raises the stored
\* exception, which leaves the loop and enters the executor's __exit__.
Collect(i) ==
    /\ dl_phase = "embed"
    /\ items[i].pc \in {"found", "raised", "exit"}
    /\ IF items[i].pc = "found"
       THEN /\ embed_urls' = Append(embed_urls, i)
            /\ items' = [items EXCEPT ![i].pc = "collected"]
            /\ UNCHANGED <<dl_phase, dl_exc>>
       ELSE /\ dl_phase' = "embed_abort"
            /\ dl_exc' = IF items[i].pc = "exit" THEN "SystemExit"
                         ELSE "AttributeError"
            /\ UNCHANGED <<items, embed_urls>>
    /\ UNCHANGED <<crawler_vars, cli_vars>>

\* The exception leaves get_embed_urls once the executor has shut down;
\* process_anime_download catches ValueError only and main catches nothing:
\* the process terminates.
EmbedAborts ==
    /\ dl_phase = "embed_abort"
    /\ ExecutorDrained
    /\ dl_phase' = "terminated"
    /\ UNCHANGED <<items, embed_urls, dl_exc>>
    /\ UNCHANGED <<crawler_vars, cli_vars>>

\* as_completed is exhausted, the with block is left and get_embed_urls
\* returns; download_anime hands the list to run_in_parallel, which starts
\* process_embed_url for every embed URL.
GetEmbedUrlsReturns ==
    /\ dl_phase = "embed"
    /\ \A i \in Items : items[i].pc = "collected"
    /\ ExecutorDrained
    /\ items' = [k \in 1..Len(embed_urls) |-> NewItem("page")]
    /\ dl_phase' = "download"
    /\ UNCHANGED <<embed_urls, dl_exc>>
    /\ UNCHANGED <<crawler_vars, cli_vars>>

\* process_embed_url up to download_episode: fetch_page, then the scripts
\* are searched for the download link and the first GET is prepared.
ProcessEmbedUrl(i, ok, link) ==
    /\ dl_phase = "download"
    /\ items[i].pc = "page"
    /\ items' = [items EXCEPT
                    ![i].pc = IF FetchPage(ok) = "exit" THEN "exit"
                              ELSE IF link # None THEN "get" ELSE "nolink",
                    ![i].link = IF FetchPage(ok) = "exit" THEN None ELSE link,
                    ![i].offset = ResumeFrom(0)]
    /\ UNCHANGED <<dl_phase, embed_urls, dl_exc>>
    /\ UNCHANGED <<crawler_vars, cli_vars>>

\* An attempt of item i ends by an exception of the given kind, the stream
\* having delivered `received` chunks: the handler waits, or the exception
\* leaves download_episode.
AttemptFails(i, kind, received) ==
    IF OnAttemptError(kind) = "sleep"
    THEN [items EXCEPT ![i].pc = "sleep",
                       ![i].received = received,
                       ![i].wait = DownloadWait(items[i].attempt)]
    ELSE [items EXCEPT ![i].pc = "raised",
                       ![i].link = None,
                       ![i].offset = 0]

\* requests.get(..., stream=True) and raise_for_status() of an attempt.
TransferConnects(i, ok) ==
    /\ dl_phase = "download"
    /\ items[i].pc = "get"
    /\ items' = IF ok THEN [items EXCEPT ![i].pc = "saving"]
                ELSE AttemptFails(i, "request", 0)
    /\ UNCHANGED <<dl_phase, embed_urls, dl_exc>>
    /\ UNCHANGED <<crawler_vars, cli_vars>>

\* save_file_with_progress ends: the body is on disk (`break`), or reading
\* the stream raised a RequestException ("request") after `received` chunks,
\* or writing the file raised an OSError ("os").
SaveEnds(i, outcome, received) ==
    /\ dl_phase = "download"
    /\ items[i].pc = "saving"
    /\ items' = IF outcome = "ok"
                THEN [items EXCEPT ![i].pc = "done",
                                   ![i].saved = TRUE,
                                   ![i].link = None,
                                   ![i].offset = 0]
                ELSE AttemptFails(i, outcome, received)
    /\ UNCHANGED <<dl_phase, embed_urls, dl_exc>>
    /\ UNCHANGED <<crawler_vars, cli_vars>>

\* time.sleep(30) of the except block ends: the next iteration sends a new
\* GET, or the loop is exhausted.
SleepEnds(i) ==
    /\ dl_phase = "download"
    /\ items[i].pc = "sleep"
    /\ items' = IF DownloadLoopContinues(items[i].attempt)
                THEN [items EXCEPT ![i].pc = "get",
                                   ![i].attempt = @ + 1,
                                   ![i].wait = NoWait,
                                   ![i].offset = ResumeFrom(items[i].received),
                                   ![i].received = 0]
                ELSE [items EXCEPT ![i].pc = Exhausted,
                                   ![i].attempt = @ + 1,
                                   ![i].wait = NoWait,
                                   ![i].link = None,
                                   ![i].offset = 0,
                                   ![i].received = 0]
    /\ UNCHANGED <<dl_phase, embed_urls, dl_exc>>
    /\ UNCHANGED <<crawler_vars, cli_vars>>

\* run_in_parallel returns to download_anime when every process_embed_url
\* call is over.
RunInParallelReturns ==
    /\ dl_phase = "download"
    /\ \A i \in Items : items[i].pc \in Over
    /\ dl_phase' = "finished"
    /\ UNCHANGED <<items, embed_urls, dl_exc>>
    /\ UNCHANGED <<crawler_vars, cli_vars>>

\* ---------------------------------------------------------------- main.py
\* the file is cleared whatever is left to process
LoopOver_Early(list, finished) == TRUE

\* `for url in urls` of process_urls has no URL left
LoopOver(list, finished) == Len(finished) = Len(list)

\* urls = [url.strip() for url in read_file(URLS_FILE) if url.strip()]
ReadUrls ==
    /\ cli_pc = "start"
    /\ urls' = StrippedNonEmpty(urls_file)
    /\ cli_pc' = "loop"
    /\ UNCHANGED <<urls_file, processed>>
    /\ UNCHANGED <<crawler_vars, dl_vars>>

\* process_urls takes the next URL and awaits process_anime_download(url).
StartUrl ==
    /\ cli_pc = "loop"
    /\ ~LoopOver(urls, processed)
    /\ cli_pc' = "processing"
    /\ UNCHANGED <<urls_file, urls, processed>>
    /\ UNCHANGED <<crawler_vars, dl_vars>>

\* The awaited process_anime_download returns, or ends by an exception or
\* sys.exit, which neither process_urls nor main catches.
UrlEnds(ok) ==
    /\ cli_pc = "processing"
    /\ IF ok
       THEN /\ processed' = Append(processed, urls[Len(processed) + 1])
            /\ cli_pc' = "loop"
       ELSE /\ cli_pc' = "aborted"
            /\ UNCHANGED processed
    /\ UNCHANGED <<urls_file, urls>>
    /\ UNCHANGED <<crawler_vars, dl_vars>>

\* process_urls has returned: write_file(URLS_FILE) truncates the file.
ClearUrlsFile ==
    /\ cli_pc = "loop"
    /\ LoopOver(urls, processed)
    /\ urls_file' = <<>>
    /\ cli_pc' = "done"
    /\ UNCHANGED <<urls, processed>>
    /\ UNCHANGED <<crawler_vars, dl_vars>>

\* The steps of one Crawler: construction, then collect_video_urls.
NextCrawler ==
    \/ \E matches \in BOOLEAN : GenerateApiUrl(matches)
    \/ \E ok \in BOOLEAN : \E count \in 1..MaxEpisodes :
          GetNumEpisodes(ok, count)
    \/ ValidationExit
    \/ CollectEpisodeIds
    \/ \E i \in Idx : Acquire(i)
    \/ \E i \in Idx : \E o \in {"ok", "403", "status", "request", "error"} :
          GetResponds(i, o)
    \/ \E i \in Idx : DelayEnds(i)
    \/ \E i \in Idx : BackoffEnds(i)
    \/ \E i \in Idx : \E ok \in BOOLEAN : FallbackReturns(i, ok)
    \/ GatherIds
    \/ GatherVideos
    \/ GatherRaises

\* The steps of get_embed_urls and of the downloads of one anime.
NextDownloader ==
    \/ \E i \in Items : StartEmbed(i)
    \/ \E i \in Items : \E ok, found \in BOOLEAN : EmbedEnds(i, ok, found)
    \/ \E i \in Items : Collect(i)
    \/ EmbedAborts
    \/ GetEmbedUrlsReturns
    \/ \E i \in Items : \E ok \in BOOLEAN : \E link \in OptLinks :
          ProcessEmbedUrl(i, ok, link)
    \/ \E i \in Items : \E ok \in BOOLEAN : TransferConnects(i, ok)
    \/ \E i \in Items : \E o \in {"ok", "request", "os"} :
          \E received \in 0..1 : SaveEnds(i, o, received)
    \/ \E i \in Items : SleepEnds(i)
    \/ RunInParallelReturns

\* The steps of main() over the URLs file.
NextCli ==
    \/ ReadUrls
    \/ StartUrl
    \/ \E ok \in BOOLEAN : UrlEnds(ok)
    \/ ClearUrlsFile

Next == NextCrawler \/ NextDownloader \/ NextCli

Spec == Init /\ [][Next]_vars

\* The event loop runs every ready callback, and every GET, sleep and
\* fallback request ends: a step that stays possible is eventually taken.
FairSpec == InitFair /\ [][NextCrawler]_vars /\ WF_vars(NextCrawler)

\* ================================================================ claims
\* C1: the number of fetch_with_retries calls inside the semaphore-guarded
\* section (both phases together) is at most the gate's capacity.
C1_GateBound == Holders <= max_workers

C1_GateFull ==
    /\ phase = "videos"
    /\ Holders = max_workers
    /\ waiters # <<>>

\* C2: every call releases the slot it acquired on every exit path, and only
\* that slot: free slots plus holders is always the capacity, and once all
\* calls have ended the semaphore is back at full capacity (the semaphore
\* exists once __init__ has returned).
C2_SlotReleased ==
    phase \notin Unbuilt =>
        /\ sem + Holders = max_workers
        /\ sem <= max_workers
        /\ AllEnded => sem = max_workers /\ waiters = <<>>

C2_AllExitPaths ==
    /\ AllEnded
    /\ \E i \in Idx : tasks[i].pc = "raised"
    /\ \E i \in Idx : tasks[i].pc = "done"
    /\ sem = max_workers

\* C3: for every invalid range (start > totalCount, start > end or
\* end > totalCount, one or both bounds supplied) resolution aborts in
\* validation: no fetch is issued and no catalog is returned.
C3_InvalidRange ==
    \/ start_episode # None /\ start_episode[1] > num_episodes
    \/ /\ start_episode # None
       /\ end_episode # None
       /\ start_episode[1] > end_episode[1]
    \/ end_episode # None /\ end_episode[1] > num_episodes

C3_InvalidRangeAborts ==
    C3_InvalidRange =>
        /\ phase \in Unbuilt \cup {"constructed", "exited"}
        /\ ~fetch_issued
        /\ tasks = <<>>
        /\ episode_ids = None

\* C4: a (start, end) pair accepted by validate_episode_range has each
\* present bound in [1, totalCount] and start <= end when both are present.
C4_AcceptedRangeValid ==
    phase \notin Unbuilt \cup {"constructed", "exited"} =>
        /\ start_episode # None =>
              start_episode[1] >= 1 /\ start_episode[1] <= num_episodes
        /\ end_episode # None =>
              end_episode[1] >= 1 /\ end_episode[1] <= num_episodes
        /\ start_episode # None /\ end_episode # None =>
              start_episode[1] <= end_episode[1]

\* C5: for a valid range 1 <= start <= end <= totalCount, when every fetch
\* succeeded, _collect_episode_ids returns exactly the identifiers of the
\* episodes start..end, one per episode, in that order.
C5_ValidRange ==
    /\ start_episode # None
    /\ end_episode # None
    /\ 1 <= start_episode[1]
    /\ start_episode[1] <= end_episode[1]
    /\ end_episode[1] <= num_episodes

C5_ExactIds ==
    [][(/\ phase = "ids"
        /\ phase' = "videos"
        /\ C5_ValidRange
        /\ \A i \in Idx : tasks[i].result # None)
       => episode_ids' =
             Some([k \in 1..(end_episode[1] - start_episode[1] + 1) |->
                      EpisodeId(start_episode[1] + k - 1)])]_vars

C5_RangeResolved ==
    /\ phase = "videos"
    /\ C5_ValidRange
    /\ start_episode[1] < end_episode[1]
    /\ \A k \in DOMAIN episode_ids[1] : episode_ids[1][k] # None

\* C6: the number of identifiers resolved in one run never exceeds
\* totalCount, for every input validation lets through.
C6_IdsWithinTotal ==
    episode_ids # None =>
        Cardinality({k \in DOMAIN episode_ids[1] : episode_ids[1][k] # None})
            <= num_episodes

\* C7: one fetch_with_retries call never sends more primary GETs than its
\* retry budget.
C7_AttemptBudget == \A i \in Idx : tasks[i].gets <= retries

C7_BudgetSpent ==
    \E i \in Idx : tasks[i].pc = "get" /\ tasks[i].gets = retries

\* C8 (as stated): after each 403 the call waits 2^attempt + jitter(1,3),
\* then invokes the fallback once, and a failed fallback does not end the
\* call while budget remains.
C8_FallbackAfterEach403 ==
    [][\A i \in Idx :
        /\ (tasks[i].pc = "get" /\ tasks'[i].exc = "403") =>
              /\ tasks'[i].pc = "backoff"
              /\ tasks'[i].wait = [base |-> 2 * Pow2(tasks[i].attempt),
                                   jlo |-> 2, jhi |-> 6]
        /\ (/\ tasks[i].pc = "backoff"
            /\ tasks[i].exc = "403"
            /\ tasks'[i] # tasks[i]) => tasks'[i].pc = "fallback"
        /\ (/\ tasks[i].pc = "fallback"
            /\ tasks[i].attempt < retries - 1
            /\ tasks'[i] # tasks[i]
            /\ tasks'[i].result = None) => tasks'[i].pc \notin Ended]_vars

\* C8 (amended): after a 403 at attempt k < retries - 1 the call waits
\* 2^k + jitter(1,3) and goes on to the next primary attempt without the
\* fallback; after a 403 at the last attempt it invokes the fallback at once,
\* and the fallback's outcome, response or None, ends the call.
C8_403Handling ==
    [][\A i \in Idx :
        /\ (tasks[i].pc = "get" /\ tasks'[i].exc = "403") =>
              IF tasks[i].attempt < retries - 1
              THEN /\ tasks'[i].pc = "backoff"
                   /\ tasks'[i].wait = [base |-> 2 * Pow2(tasks[i].attempt),
                                        jlo |-> 2, jhi |-> 6]
              ELSE /\ tasks'[i].pc = "fallback"
                   /\ tasks'[i].wait = NoWait
        /\ (/\ tasks[i].pc = "backoff"
            /\ tasks[i].exc = "403"
            /\ tasks'[i] # tasks[i]) =>
              /\ tasks'[i].pc = "delay"
              /\ tasks'[i].attempt = tasks[i].attempt + 1
        /\ (tasks[i].pc = "fallback" /\ tasks'[i] # tasks[i]) =>
              tasks'[i].pc = "done"]_vars

C8_FallbackAfterLast403 ==
    \E i \in Idx :
        /\ tasks[i].pc = "fallback"
        /\ tasks[i].exc = "403"
        /\ tasks[i].attempt = retries - 1

\* C9 (as stated): the fallback transport is invoked only in response to a
\* 403 of the primary transport.
C9_FallbackOnlyOn403 ==
    \A i \in Idx : tasks[i].pc = "fallback" => tasks[i].exc = "403"

\* C9 (amended): the fallback transport is invoked only after the last
\* primary attempt failed with a 403 or with a network-level request error,
\* never after another HTTP status error or while attempts remain.
C9_FallbackOnlyLastResort ==
    \A i \in Idx :
        tasks[i].pc = "fallback" =>
            /\ tasks[i].exc \in {"403", "request"}
            /\ tasks[i].attempt = retries - 1
            /\ tasks[i].gets = retries

C9_FallbackAfterRequestError ==
    \E i \in Idx : tasks[i].pc = "fallback" /\ tasks[i].exc = "request"

\* C10: a call all of whose attempts failed (403, other HTTP status, network
\* error, failed fallback) returns None and raises nothing: a call that ends
\* without a response, other than by an exception of another kind raised by
\* the GET, ends by returning.
C10_ExhaustedReturnsNone ==
    [][\A i \in Idx :
        (/\ tasks[i].pc \in Active
         /\ tasks'[i].pc \in Ended
         /\ tasks'[i].result = None
         /\ tasks'[i].exc # "error") => tasks'[i].pc = "done"]_vars

C10_CallExhausted ==
    \E i \in Idx :
        /\ tasks[i].pc = "done"
        /\ tasks[i].result = None
        /\ phase = "ids"

\* C11: the results of both gathers are in the order of the requested
\* episodes whatever the order of completion: the i-th identifier, when
\* there is one, is that of an episode of the i-th request's window, the
\* identifiers ascend, and the i-th video URL is the text fetched for the
\* i-th identifier.
C11_ResultsInRequestOrder ==
    [][/\ (phase = "ids" /\ phase' = "videos") =>
             /\ Len(episode_ids'[1]) = Len(tasks)
             /\ \A i \in Idx :
                   episode_ids'[1][i] # None =>
                       /\ tasks[i].arg = StartIndex(start_episode) + i - 1
                       /\ episode_ids'[1][i][1] \in
                             {tasks[i].arg, tasks[i].arg + 1}
             /\ \A i, j \in Idx :
                   (/\ i < j
                    /\ episode_ids'[1][i] # None
                    /\ episode_ids'[1][j] # None) =>
                       episode_ids'[1][i][1] <= episode_ids'[1][j][1]
       /\ (phase = "videos" /\ phase' = "returned") =>
             /\ Len(video_urls'[1]) = Len(episode_ids[1])
             /\ \A i \in Idx :
                   video_urls'[1][i] # None =>
                       video_urls'[1][i] = Some(episode_ids[1][i])]_vars

\* the identifiers were gathered in order and, in the second gather, a later
\* fetch has completed before an earlier one
C11_CompletedOutOfOrder ==
    /\ phase = "videos"
    /\ Len(tasks) >= 2
    /\ episode_ids[1][1] # None
    /\ episode_ids[1][2] # None
    /\ episode_ids[1][1] # episode_ids[1][2]
    /\ tasks[2].pc = "done"
    /\ tasks[1].pc \in Active

\* C12: an identifier whose fetch exhausted its retries is dropped from the
\* result: the list of identifiers has no empty entry, and no embed URL is
\* generated and no embed fetch issued for one.
C12_ExhaustedIdDropped ==
    phase \in {"videos", "returned"} =>
        /\ \A k \in DOMAIN episode_ids[1] : episode_ids[1][k] # None
        /\ \A i \in Idx : tasks[i].arg # None

\* C13: every embed URL fetched by collect_video_urls is derived from the
\* identifier of an episode whose number lies inside [start, end] (1 and
\* totalCount standing for an absent bound).
C13_EmbedFetchInRange ==
    phase \in {"videos", "returned"} =>
        \A i \in Idx :
            tasks[i].pc \notin {"created", "waiting"} =>
                /\ tasks[i].arg # None
                /\ tasks[i].arg[1] >=
                      (IF start_episode # None THEN start_episode[1] ELSE 1)
                /\ tasks[i].arg[1] <=
                      (IF end_episode # None THEN end_episode[1]
                       ELSE num_episodes)

\* C14: a network failure of fetch_page for one item is contained at that
\* item: the SystemExit it raises never leaves get_embed_urls, so it never
\* terminates the process or keeps the other items from being downloaded.
C14_FetchFailureContained ==
    dl_phase \in {"embed_abort", "terminated"} => dl_exc # "SystemExit"

C16_BudgetOfFour ==
    \A i \in Items :
        (/\ dl_phase \in {"download", "finished"}
         /\ items[i].pc = "done"
         /\ ~items[i].saved) => items[i].attempt = 4

\* C16 amended: the budget is download_retries = 3 attempts. attempt counts
\* the failed attempts of the transfer: an attempt is made only after at
\* most 2 failures, a saved transfer has failed at most twice, and a
\* transfer is abandoned exactly after its 3rd failure.
C16_BudgetOfThree ==
    \A i \in Items :
        dl_phase \in {"download", "finished"} =>
            /\ items[i].attempt <= download_retries
            /\ items[i].pc \in {"get", "saving", "sleep"} =>
                  items[i].attempt <= download_retries - 1
            /\ items[i].saved => items[i].attempt <= download_retries - 1
            /\ (items[i].pc = "done" /\ ~items[i].saved) =>
                  items[i].attempt = download_retries

\* two transient failures, then the third attempt saved the file
C16_SavedOnThirdAttempt ==
    /\ dl_phase \in {"download", "finished"}
    /\ \E i \in Items :
          /\ items[i].pc = "done"
          /\ items[i].saved
          /\ items[i].attempt = download_retries - 1

\* C17: whenever an attempt of a transfer fails (at connect time or while
\* saving, whatever the exception) and attempts remain, download_episode
\* waits and retries: the failed attempt is followed by the sleep.
C17_AnyFailureRetried ==
    [][\A i \in Items :
          (/\ dl_phase = "download"
           /\ items[i].pc \in {"get", "saving"}
           /\ items[i].attempt < download_retries - 1
           /\ items'[i].pc \notin {"get", "saving"}
           /\ ~items'[i].saved) =>
              items'[i].pc = "sleep"]_vars

\* C18: a URL that does not have the shape {domain}/anime/{numericId}-{slug}
\* is fatal at URL derivation: once _generate_api_url has found no match the
\* process has exited, and __init__ does not go on to the metadata request.
C18_BadUrlExits ==
    (phase \notin {"off", "new"} /\ api_url = None) => phase = "exited"

\* C19: the fan-outs return only after every task they launched has
\* settled: each gather of collect_video_urls returns its list when all its
\* calls have ended, and get_embed_urls is left (by return or by the
\* propagating exception) when every future has finished.
C19_ReturnsAfterAllSettled ==
    [][/\ (phase' # phase /\ phase' \in {"videos", "returned"}) =>
             \A i \in Idx : tasks[i].pc \in Ended
       /\ (dl_phase' # dl_phase /\ dl_phase' \in {"download", "terminated"}) =>
             \A i \in Items : items[i].pc \in Settled]_vars

\* collect_video_urls has returned the list of a gather of two fetches
C19_FanOutReturned ==
    /\ phase = "returned"
    /\ Len(tasks) >= 2
    /\ \A i \in Idx : tasks[i].pc = "done"

\* C20: no step of fetch_with_retries blocks the other tasks: while one task
\* is inside the guarded section, every other task suspended at a GET or at
\* a sleep can take its next step.
C20_NoStepBlocksOthers ==
    \A i, j \in Idx :
        (/\ i # j
         /\ tasks[i].pc \in Active
         /\ tasks[j].pc \in {"get", "delay", "backoff"}) =>
            ENABLED (\/ DelayEnds(j)
                     \/ BackoffEnds(j)
                     \/ GetResponds(j, "ok"))

\* C22: the backoff after failed primary attempt k (not the last) is 2^k
\* seconds plus an added jitter, in [1,3] after a 403 and in [0,2]
\* otherwise: 1, 2, 4 seconds for k = 0, 1, 2 (2, 4, 8 half seconds), so the
\* jitter-free delay never decreases with the attempt index.
C22_BackoffExponential ==
    /\ \A i \in Idx :
          tasks[i].pc = "backoff" =>
              /\ tasks[i].attempt \in 0..(retries - 2)
              /\ tasks[i].wait.base = <<2, 4, 8>>[tasks[i].attempt + 1]
              /\ tasks[i].exc = "403" =>
                    tasks[i].wait.jlo = 2 /\ tasks[i].wait.jhi = 6
              /\ tasks[i].exc \in {"status", "request"} =>
                    tasks[i].wait.jlo = 0 /\ tasks[i].wait.jhi = 4
    /\ \A a, b \in 0..(retries - 2) :
          a <= b => Backoff(a, 0, 2).base <= Backoff(b, 0, 2).base

\* the backoff before the last attempt, after a 403 and after another error
C22_LongestBackoffs ==
    \E i, j \in Idx :
        /\ tasks[i].pc = "backoff"
        /\ tasks[i].attempt = retries - 2
        /\ tasks[i].exc = "403"
        /\ tasks[j].pc = "backoff"
        /\ tasks[j].attempt = retries - 2
        /\ tasks[j].exc = "status"

\* C27: within one call the fallback transport is invoked at most once and
\* as the call's last action: it is entered only from the last primary
\* attempt (index retries - 1, the retries-th GET) failing with a 403 or a
\* request error, whatever it yields ends the call by a return, and a call
\* returning None straight from a GET does so only at the last attempt
\* (another HTTP status), without the fallback.
C27_FallbackOnceAndLast ==
    [][\A i \in Idx :
        /\ (tasks[i].pc # "fallback" /\ tasks'[i].pc = "fallback") =>
              /\ tasks[i].pc = "get"
              /\ tasks[i].attempt = retries - 1
              /\ tasks[i].gets = retries
              /\ tasks'[i].exc \in {"403", "request"}
              /\ tasks'[i].gets = tasks[i].gets
        /\ (tasks[i].pc = "fallback" /\ tasks'[i] # tasks[i]) =>
              /\ tasks'[i].pc = "done"
              /\ tasks'[i].result \in {None, Some(ResponseOf(i))}
        /\ (/\ tasks[i].pc = "get"
            /\ tasks'[i].pc = "done"
            /\ tasks'[i].result = None) =>
              tasks[i].attempt = retries - 1]_vars

\* in the second phase a call is inside the fallback after its 4th GET
C27_FallbackReached ==
    /\ phase = "videos"
    /\ \E i \in Idx :
          /\ tasks[i].pc = "fallback"
          /\ tasks[i].gets = retries

\* C28: the two phases of collect_video_urls never overlap: when the embed
\* fetches are created every identifier fetch has returned, none holds or
\* awaits the semaphore, and the semaphore is at full capacity; an embed
\* fetch (a task whose argument is an optional identifier) exists only in
\* the second phase.
C28_PhasesDisjoint ==
    [][(phase = "ids" /\ phase' = "videos") =>
          /\ \A i \in Idx : tasks[i].pc = "done"
          /\ Holders = 0
          /\ waiters = <<>>
          /\ sem = max_workers
          /\ \A i \in DOMAIN tasks' : tasks'[i].pc = "created"]_vars

\* the second phase is running with all slots taken by embed fetches
C28_SecondPhaseHolds ==
    /\ phase = "videos"
    /\ Len(tasks) >= 2
    /\ Holders = max_workers
    /\ \A i \in Idx : tasks[i].arg # None

\* C23: an identifier whose declared episode number is not numeric is always
\* part of the resolver's result, whatever (valid) range was requested: once
\* the identifiers are gathered, none missing by a failed fetch, the identifier
\* of every catalogue episode with a non-numeric number is among them.
C23_NonNumericIncluded ==
    (/\ phase \in {"videos", "returned"}
     /\ C5_ValidRange
     /\ \A k \in DOMAIN episode_ids[1] : episode_ids[1][k] # None) =>
        \A position \in 1..num_episodes :
            NonNumeric(NumberField(position)) =>
                \E k \in DOMAIN episode_ids[1] :
                    episode_ids[1][k] = EpisodeId(position)

\* C24: no fetch mutates the header mapping shared by the concurrent
\* fetches: the module-level HEADERS keeps exactly the keys prepare_headers
\* gave it, in every state and over every step.
C24_SharedHeadersUntouched ==
    /\ HEADERS = PrepareHeaders
    /\ ApplyDefaults(None, HEADERS).shared = HEADERS

\* fetches of both phases have passed HEADERS on, one of them to the
\* fallback transport
C24_HeadersPassedOn ==
    /\ phase = "videos"
    /\ fetch_issued
    /\ \E i \in Idx : tasks[i].pc = "fallback"
    /\ \E i \in Idx : tasks[i].pc = "done"

\* C21: no two transfers write the same destination path at the same time:
\* whenever two download_episode calls are saving concurrently, their
\* final_path values are distinct.
C21_DistinctPathsWhileSaving ==
    \A i, j \in Items :
        (/\ dl_phase = "download"
         /\ i # j
         /\ items[i].pc = "saving"
         /\ items[j].pc = "saving") =>
            FinalPath(items[i].link[1]) # FinalPath(items[j].link[1])

\* C25: the wait before retrying after failed transfer attempt k (0-based)
\* is 10 * (k + 1) seconds plus a jitter in [0, 2] (in half seconds: base
\* 20 * (k + 1), jitter 0..4).
C25_LinearWait ==
    \A i \in Items :
        (dl_phase = "download" /\ items[i].pc = "sleep") =>
            items[i].wait = [base |-> 20 * (items[i].attempt + 1),
                             jlo |-> 0, jhi |-> 4]

\* C29: download_episode sends no GET after an attempt whose save completed
\* (a saved transfer never changes again), a GET is sent only as the first
\* attempt or after the sleep of a failed one, it is at most the 3rd
\* (download_retries) of the link, and it asks for the body from byte 0
\* whatever the failed attempt had received.
C29_NoGetAfterSave ==
    [][\A i \in Items :
          dl_phase = "download" =>
              /\ items[i].saved => items'[i] = items[i]
              /\ (items[i].pc # "get" /\ items'[i].pc = "get") =>
                    /\ items[i].pc \in {"page", "sleep"}
                    /\ ~items[i].saved
                    /\ items'[i].attempt + 1 <= download_retries
                    /\ items'[i].offset = 0
                    /\ items'[i].link # None]_vars

\* the last allowed GET is out, after an attempt that broke off mid-stream,
\* while a sibling transfer is saved
C29_LastGetBesideSaved ==
    /\ dl_phase = "download"
    /\ \E i, j \in Items :
          /\ items[i].pc = "get"
          /\ items[i].attempt = download_retries - 1
          /\ items[i].offset = 0
          /\ items[j].saved

\* C30: in CLI mode the URLs are processed one at a time in file order (a
\* URL is finished only while it is the one in progress, and it is the next
\* of the list), the URLs file changes only by being cleared after every
\* URL has been processed, and after an abort the file still holds the
\* lines that were read.
C30_SequentialThenCleared ==
    [][/\ processed' # processed =>
             /\ cli_pc = "processing"
             /\ Len(processed) < Len(urls)
             /\ processed' = Append(processed, urls[Len(processed) + 1])
       /\ (cli_pc' = "processing" /\ cli_pc # "processing") =>
             /\ cli_pc = "loop"
             /\ \A k \in 1..Len(processed) : processed[k] = urls[k]
       /\ urls_file' # urls_file =>
             /\ processed = urls
             /\ urls_file' = <<>>
             /\ cli_pc' = "done"
       /\ cli_pc' = "aborted" =>
             /\ StrippedNonEmpty(urls_file') = urls
             /\ urls_file' = urls_file
             /\ Len(processed') < Len(urls)]_vars

\* two URLs were processed in file order and the file is cleared
C30_AllProcessedAndCleared ==
    /\ cli_pc = "done"
    /\ Len(processed) = 2
    /\ processed = urls
    /\ processed[1] # processed[2]
    /\ urls_file = <<>>

\* C26: under fair scheduling every fetch_with_retries call eventually gets
\* its slot and ends, and collect_video_urls completes (returns its list, or
\* ends by the exit of the validation or by an exception), also with more
\* episodes than slots: eventually the run is over with every call ended
\* and nobody queued at the semaphore.
C26_EveryCallTerminates ==
    <>(/\ phase \in {"off", "crashed", "exited", "raised", "returned"}
       /\ AllEnded
       /\ waiters = <<>>
       /\ sem = (IF phase \in Unbuilt THEN 0 ELSE max_workers))

\* collect_video_urls has returned with more fetches per phase than slots
C26_MoreEpisodesThanSlots ==
    /\ phase = "returned"
    /\ Len(tasks) > max_workers
    /\ AllEnded
====
